---- MODULE Spec2Model ----
(***************************************************************************)
(* psrecord: main() and monitor() of src/psrecord/main.py as a state       *)
(* machine.  One call of main() attaches to (or spawns) a root process and *)
(* runs monitor(), whose loop samples the root and, optionally, its        *)
(* descendants, and routes each sample to a log stream and/or a plot       *)
(* series.  The operating system (process states, read failures, the       *)
(* clock, the user's interrupt) is the nondeterministic environment.       *)
(***************************************************************************)
EXTENDS Integers, Sequences, FiniteSets, TLC

(* ------------------------------ bounds --------------------------------- *)

\* samples one run takes before the environment ends it
MaxSamples == 2
\* the clock saturates here: MaxTime stands for "MaxTime or later"
MaxTime == 2

(* -------------------------- program constants -------------------------- *)

\* 1024.0**2, bytes per MB
MBytes == 1048576

None == "None"
\* None where the other values are numbers
NoNumber == -1
STDOUT == "<stdout>"

\* the root process pr, and the handles of the descendants the system can
\* show during a run: two, so that one descendant's snapshot can fail before
\* or after another's succeeds
Root == 0
Handles == {1, 2}

(* ------------------------------ state ---------------------------------- *)

VARIABLES
  cfg,        \* the arguments of monitor(), and whether main() spawned a command
  pc,         \* position of the program
  children,   \* the module-level list `children`
  idx,        \* position of `for child in all_children(pr)` in the list
  cur,        \* the loop's locals: elapsed_time, current_*, counters, n_proc
  f,          \* the log stream f: None, stdout, an open file, a closed file
  file,       \* the log file on disk: absent, or exists (created by open)
  out,        \* what was written to f: header lines, rows, lines flushed
  log,        \* the dict `log` of lists, the plot series
  now,        \* time.time() - start_time
  dead,       \* descendants that have exited
  exc,        \* the exception that left monitor(), or None
  sprocess,   \* main()'s sprocess: None, running, killed
  plotted,    \* the series of each figure saved (fig.savefig), in order
  stop,       \* why the loop ended
  nsamples,   \* iterations of this run that took a sample
  snaps,      \* this iteration's descendant snapshots: "ok" or the read that failed
  probe       \* how this iteration's directory scan went, and how the
              \* pr.children() call went whose list is being walked

vars == <<cfg, pc, children, idx, cur, f, file, out, log, now, dead, exc,
          sprocess, plotted, stop, nsamples, snaps, probe>>

(* --------------------------- run configuration ------------------------- *)

\* every combination of the options of a run that samples the root alone
RootConfigs ==
  [ logfile : {None, "run.log"},
    plot : {None, "plot.png"},
    duration : {NoNumber, 1},
    interval : {NoNumber, 1},
    include_children : {FALSE},
    include_io : BOOLEAN,
    log_format : {"plain", "csv", "bogus"},
    include_dir : {None, "dir"},
    spawn : BOOLEAN ]

\* runs over the process tree: the loop over the descendants reads
\* include_io alone, the other options are those of one csv-and-plot run
TreeConfigs ==
  [ logfile : {"run.log"},
    plot : {"plot.png"},
    duration : {NoNumber, 1},
    interval : {NoNumber},
    include_children : {TRUE},
    include_io : BOOLEAN,
    log_format : {"csv"},
    include_dir : {None},
    spawn : {FALSE} ]

Configs == RootConfigs \cup TreeConfigs

\* `logfile` after lines 157-159: "<stdout>" when neither sink was given
Logfile(c) == IF c.logfile = None /\ c.plot = None THEN STDOUT ELSE c.logfile

(* ------------------------- operating-system reads ---------------------- *)

\* Each process has its own fixed readings; the weights are powers of two,
\* so a sum of readings tells which processes it holds, and how often.
Weight(h) == 2 ^ h

Snapshot(h) ==
  [ cpu |-> Weight(h),
    rss |-> Weight(h) * MBytes,
    vms |-> 3 * Weight(h) * MBytes,
    swap |-> 5 * Weight(h) * MBytes,
    read_count |-> Weight(h),
    write_count |-> 2 * Weight(h),
    read_bytes |-> 3 * Weight(h),
    write_bytes |-> 4 * Weight(h) ]

\* x / 1024.0**2 (the readings are whole MB)
ToMB(b) == b \div MBytes

\* psutil.NoSuchProcess and psutil.AccessDenied, the errors of a process read
OSErrors == {"NoSuchProcess", "AccessDenied"}

(* ------------------------- append-only sequences ---------------------- *)

\* The rows of the stream and the lists of `log` only ever grow at the end
\* (f.write, list.append).  The model keeps of each its length and its last
\* element: [n |-> length, last |-> last element].
Push(s, x) == [n |-> s.n + 1, last |-> x]

(* ------------------------------ log stream ----------------------------- *)

\* the header line, one entry per column (lines 164-190)
Header(c) ==
  IF c.log_format = "plain"
  THEN <<"Elapsed time", "CPU (%)", "Real (MB)", "Virtual (MB)", "Swap (MB)">>
       \o (IF c.include_io
           THEN <<"Read count", "Write count", "Read bytes", "Write bytes">>
           ELSE <<>>)
       \o (IF c.include_dir # None THEN <<"Dir size (MB)">> ELSE <<>>)
  ELSE <<"elapsed_time", "nproc", "cpu", "mem_real", "mem_virtual", "mem_swap">>
       \o (IF c.include_io
           THEN <<"read_count", "write_count", "read_bytes", "write_bytes">>
           ELSE <<>>)
       \o (IF c.include_dir # None THEN <<"dir_size_mb">> ELSE <<>>)

\* one written field: the local it was formatted from, and its value
Field(v, k) == [var |-> k, val |-> v[k]]

\* a csv row without its nproc field
RowWithoutNproc(c, v) ==
  <<Field(v, "elapsed_time"), Field(v, "current_cpu"),
    Field(v, "current_mem_real"), Field(v, "current_mem_virtual"),
    Field(v, "current_mem_swap")>>
  \o (IF c.include_io
      THEN <<Field(v, "read_count"), Field(v, "write_count"),
             Field(v, "read_bytes"), Field(v, "write_bytes")>>
      ELSE <<>>)
  \o (IF c.include_dir # None THEN <<Field(v, "current_dir")>> ELSE <<>>)

\* the row of one sample, one entry per field (lines 287-308)
Row(c, v) ==
  IF c.log_format = "plain"
  THEN <<Field(v, "elapsed_time"), Field(v, "current_cpu"),
         Field(v, "current_mem_real"), Field(v, "current_mem_virtual"),
         Field(v, "current_mem_swap")>>
       \o (IF c.include_io
           THEN <<Field(v, "read_count"), Field(v, "write_count"),
                  Field(v, "read_bytes"), Field(v, "write_bytes")>>
           ELSE <<>>)
       \o (IF c.include_dir # None THEN <<Field(v, "current_dir")>> ELSE <<>>)
  ELSE IF c.log_format = "csv"
  THEN <<Field(v, "elapsed_time"), Field(v, "n_proc"), Field(v, "current_cpu"),
         Field(v, "current_mem_real"), Field(v, "current_mem_virtual"),
         Field(v, "current_mem_swap")>>
       \o (IF c.include_io
           THEN <<Field(v, "read_count"), Field(v, "write_count"),
                  Field(v, "read_bytes"), Field(v, "write_bytes")>>
           ELSE <<>>)
       \o (IF c.include_dir # None THEN <<Field(v, "current_dir")>> ELSE <<>>)
  ELSE <<>>

\* nothing written yet
NoOutput ==
  [header |-> <<>>, rows |-> [n |-> 0, last |-> <<>>], newlines |-> 0,
   flushed |-> 0]

(* ------------------------------ plot series ---------------------------- *)

\* the keys of `log` (lines 197-207)
LogKeys(c) ==
  {"times", "cpu", "mem_real", "mem_virtual"}
  \cup (IF c.include_io
        THEN {"read_count", "write_count", "read_bytes", "write_bytes"}
        ELSE {})

\* the local appended to each list (lines 317-325)
LogVar(k) ==
  CASE k = "times" -> "elapsed_time"
    [] k = "cpu" -> "current_cpu"
    [] k = "mem_real" -> "current_mem_real"
    [] k = "mem_virtual" -> "current_mem_virtual"
    [] OTHER -> k

EmptyLog(c) == [k \in LogKeys(c) |-> [n |-> 0, last |-> NoNumber]]

\* lines 316-325
AppendLog(c, l, v) == [k \in DOMAIN l |-> Push(l[k], v[LogVar(k)])]

(* ------------------------------ the locals ----------------------------- *)

Locals ==
  {"elapsed_time", "current_cpu", "current_mem_real", "current_mem_virtual",
   "current_mem_swap", "read_count", "write_count", "read_bytes",
   "write_bytes", "n_proc", "current_dir"}

Unbound == [k \in Locals |-> NoNumber]

\* what a call into the system gave: a result, or an exception
Answer(ok) == IF ok THEN "ok" ELSE "failed"

\* neither pr.children() nor the directory scan has run in this iteration;
\* the outcome of pr.children() is dropped again with the last pass over
\* its list
NoProbe == [children |-> "none", dir |-> "none"]

Init ==
  /\ cfg \in Configs
  /\ pc = "idle"
  /\ children = <<>>
  /\ idx = 0
  /\ cur = Unbound
  /\ f = None
  /\ file = "absent"
  /\ out = NoOutput
  /\ log = EmptyLog(cfg)
  /\ now = 0
  /\ dead = {}
  /\ exc = None
  /\ sprocess = None
  /\ plotted = <<>>
  /\ stop = None
  /\ nsamples = 0
  /\ snaps = <<>>
  /\ probe = NoProbe

(* --------------------------- positions of the loop --------------------- *)

\* the statement after the pause (line 316)
AfterSleep(c) == IF c.plot # None THEN "append" ELSE "root"

\* the statement after the row is written (line 312)
AfterWrite(c) == IF c.interval # NoNumber THEN "sleep" ELSE AfterSleep(c)

\* a loop that writes the row whether or not there is a log stream
AlwaysWrite(c) == "write"

\* the statement after the directory scan (line 286)
AfterDir(c) == IF Logfile(c) # None THEN "write" ELSE AfterWrite(c)

\* the statement after the loop over the descendants (line 272)
AfterChildren(c) == IF c.include_dir # None THEN "dir" ELSE AfterDir(c)

\* a loop that walks the descendants whatever include_children says
AlwaysEnumerate(c) == "enum"

\* the statement after the root's reads (line 253)
AfterRoot(c) == IF c.include_children THEN "enum" ELSE AfterChildren(c)

\* inside `try:` ... `except KeyboardInterrupt` (lines 209-328)
InLoop == pc \in {"root", "enum", "visit", "dir", "write", "sleep", "append"}

(* ------------------------ main() and monitor()'s start ----------------- *)

\* a monitor() that keeps the registry of the run before
KeepChildren == children

\* `children = []` (line 148)
ResetChildren == <<>>

\* f after lines 156-161
OpenStream(c) ==
  IF c.logfile = None /\ c.plot = None THEN "stdout"
  ELSE IF c.logfile # None THEN "open" ELSE None

\* main() lines 104-127 and monitor() lines 147-207: attach or spawn, reset
\* the registry, open the stream, write the header or reject the format.
\* found: whether psutil.Process(pid) found the process.
Call(c, found) ==
  /\ pc \in {"idle", "exit"}
  /\ (c.spawn => found)
  /\ cfg' = c
  /\ sprocess' = IF c.spawn THEN "running" ELSE None
  /\ children' = ResetChildren
  /\ idx' = 0
  /\ cur' = Unbound
  /\ now' = 0
  /\ dead' = {}
  /\ plotted' = <<>>
  /\ stop' = None
  /\ nsamples' = 0
  /\ snaps' = <<>>
  /\ probe' = NoProbe
  /\ log' = EmptyLog(c)
  /\ IF ~found
     THEN \* psutil.Process(pid) raises (line 151)
          /\ exc' = "NoSuchProcess"
          /\ pc' = "raised"
          /\ f' = None
          /\ file' = "absent"
          /\ out' = NoOutput
     ELSE /\ f' = OpenStream(c)
          /\ file' = IF c.logfile # None THEN "exists" ELSE "absent"
          /\ IF Logfile(c) # None /\ c.log_format \notin {"plain", "csv"}
             THEN \* raise ValueError (line 192)
                  /\ exc' = "ValueError"
                  /\ pc' = "raised"
                  /\ out' = NoOutput
             ELSE /\ exc' = None
                  /\ pc' = "root"
                  /\ out' = IF Logfile(c) # None
                            THEN [NoOutput EXCEPT !.header = <<Header(c)>>,
                                                 !.newlines = 1]
                            ELSE NoOutput

(* ------------------------------ the loop ------------------------------- *)

\* a `continue` where the loop has `break`: the reason is noted and the
\* iteration goes on
Continue(reason) ==
  /\ stop' = reason
  /\ pc' = AfterRoot(cfg)

\* the loop ends: break, or KeyboardInterrupt caught (lines 222-238, 327)
Break(reason) ==
  /\ stop' = reason
  /\ pc' = "finish"

\* an exception leaves monitor()
Raise(e) ==
  /\ exc' = e
  /\ pc' = "raised"

\* the root's readings in the locals (lines 235-250)
RootSample(v, t, io) ==
  LET s == Snapshot(Root) IN
  [v EXCEPT !["elapsed_time"] = t,
            !["current_cpu"] = s.cpu,
            !["current_mem_real"] = ToMB(s.rss),
            !["current_mem_virtual"] = ToMB(s.vms),
            !["current_mem_swap"] = ToMB(s.swap),
            !["read_count"] = IF io THEN s.read_count ELSE @,
            !["write_count"] = IF io THEN s.write_count ELSE @,
            !["read_bytes"] = IF io THEN s.read_bytes ELSE @,
            !["write_bytes"] = IF io THEN s.write_bytes ELSE @,
            !["n_proc"] = 1]

\* a test that already stops at elapsed_time = duration
ReachedDuration(c, t) == c.duration # NoNumber /\ t >= c.duration

\* line 230: `duration is not None and elapsed_time > duration`
OverDuration(c, t) == c.duration # NoNumber /\ t > c.duration

\* lines 213-250: read the clock and the root.
\* t: the clock; st: what pr.status() gives; rd: whether cpu_percent() and
\* memory_full_info() succeed; io: what pr.io_counters() gives.
RootRead(t, st, rd, io) ==
  /\ pc = "root"
  /\ now' = t
  /\ probe' = NoProbe
  /\ UNCHANGED <<cfg, children, idx, f, file, out, log, dead, sprocess,
                 plotted, snaps>>
  /\ IF st = "NoSuchProcess"
     THEN /\ Break("ProcessExited")
          /\ cur' = [cur EXCEPT !["elapsed_time"] = t]
          /\ UNCHANGED <<exc, nsamples>>
     ELSE IF st = "AccessDenied"
     THEN /\ Raise(st)
          /\ cur' = [cur EXCEPT !["elapsed_time"] = t]
          /\ UNCHANGED <<stop, nsamples>>
     ELSE IF st \in {"zombie", "dead"}
     THEN /\ Break("ProcessExited")
          /\ cur' = [cur EXCEPT !["elapsed_time"] = t]
          /\ UNCHANGED <<exc, nsamples>>
     ELSE IF OverDuration(cfg, t)
     THEN /\ Break("DurationExceeded")
          /\ cur' = [cur EXCEPT !["elapsed_time"] = t]
          /\ UNCHANGED <<exc, nsamples>>
     ELSE IF ~rd
     THEN /\ Break("SnapshotFailed")
          /\ cur' = [cur EXCEPT !["elapsed_time"] = t]
          /\ UNCHANGED <<exc, nsamples>>
     ELSE IF cfg.include_io /\ io # "ok"
     THEN /\ Raise(io)
          /\ cur' = [RootSample(cur, t, FALSE) EXCEPT !["n_proc"] = cur["n_proc"]]
          /\ UNCHANGED <<stop, nsamples>>
     ELSE /\ nsamples < MaxSamples
          /\ cur' = RootSample(cur, t, cfg.include_io)
          /\ nsamples' = nsamples + 1
          /\ pc' = AfterRoot(cfg)
          /\ UNCHANGED <<exc, stop>>

(* --------------------------- the descendants --------------------------- *)

\* an append without the `child not in children` test
RECURSIVE AddAll(_, _)
AddAll(reg, found) ==
  IF found = <<>> THEN reg
  ELSE AddAll(Append(reg, Head(found)), Tail(found))

\* lines 43-45: append each child not yet in the list
RECURSIVE AddNew(_, _)
AddNew(reg, found) ==
  IF found = <<>> THEN reg
  ELSE LET child == Head(found) IN
       AddNew(IF \E i \in 1 .. Len(reg) : reg[i] = child
              THEN reg ELSE Append(reg, child),
              Tail(found))

\* an all_children() whose except branch returns an empty list
AllChildrenOrNone(reg, ok, found) == IF ~ok THEN <<>> ELSE AddNew(reg, found)

\* all_children(pr), lines 35-47.  ok: whether pr.children(recursive=True)
\* returned; found: the list it returned.
AllChildren(reg, ok, found) == IF ~ok THEN reg ELSE AddNew(reg, found)

\* the lists pr.children(recursive=True) can return: the live descendants
\* the system shows, each once, in any order
Enumerations ==
  UNION { { s \in [1 .. n -> Handles \ dead] :
              \A i, j \in 1 .. n : i # j => s[i] # s[j] } :
          n \in 0 .. Cardinality(Handles) }

\* line 254: the list the for loop runs over
Enumerate(ok, found) ==
  /\ pc = "enum"
  /\ children' = AllChildren(children, ok, found)
  /\ IF Len(children') = 0
     THEN pc' = AfterChildren(cfg) /\ idx' = 0
     ELSE pc' = "visit" /\ idx' = 1
  /\ snaps' = <<>>
  /\ probe' = [probe EXCEPT !.children = Answer(ok)]
  /\ UNCHANGED <<cfg, cur, f, file, out, log, now, dead, exc, sprocess,
                 plotted, stop, nsamples>>

\* a loop body that counts the child before it reads it
ChildCountedFirst(v, h, failed, io) ==
  LET s == Snapshot(h)
      cpu == failed # "cpu"
      mem == cpu /\ failed # "mem"
      ioc == mem /\ io /\ failed # "io"
  IN [v EXCEPT
        !["current_cpu"] = IF cpu THEN @ + s.cpu ELSE @,
        !["current_mem_real"] = IF mem THEN @ + ToMB(s.rss) ELSE @,
        !["current_mem_virtual"] = IF mem THEN @ + ToMB(s.vms) ELSE @,
        !["current_mem_swap"] = IF mem THEN @ + ToMB(s.swap) ELSE @,
        !["read_count"] = IF ioc THEN @ + s.read_count ELSE @,
        !["write_count"] = IF ioc THEN @ + s.write_count ELSE @,
        !["read_bytes"] = IF ioc THEN @ + s.read_bytes ELSE @,
        !["write_bytes"] = IF ioc THEN @ + s.write_bytes ELSE @,
        !["n_proc"] = @ + 1]

\* the body of the for loop for child h (lines 255-270).
\* failed: the read that raised NoSuchProcess or AccessDenied, "ok" if none.
ChildSample(v, h, failed, io) ==
  LET s == Snapshot(h)
      cpu == failed # "cpu"
      mem == cpu /\ failed # "mem"
      ioc == mem /\ io /\ failed # "io"
      cnt == mem /\ (io => ioc)
  IN [v EXCEPT
        !["current_cpu"] = IF cpu THEN @ + s.cpu ELSE @,
        !["current_mem_real"] = IF mem THEN @ + ToMB(s.rss) ELSE @,
        !["current_mem_virtual"] = IF mem THEN @ + ToMB(s.vms) ELSE @,
        !["current_mem_swap"] = IF mem THEN @ + ToMB(s.swap) ELSE @,
        !["read_count"] = IF ioc THEN @ + s.read_count ELSE @,
        !["write_count"] = IF ioc THEN @ + s.write_count ELSE @,
        !["read_bytes"] = IF ioc THEN @ + s.read_bytes ELSE @,
        !["write_bytes"] = IF ioc THEN @ + s.write_bytes ELSE @,
        !["n_proc"] = IF cnt THEN @ + 1 ELSE @]

\* one pass of the for loop.  An exited descendant raises NoSuchProcess at
\* its first read; a live one may exit, or be denied, at any of its reads.
Visit(failed, e) ==
  /\ pc = "visit"
  /\ LET h == children[idx] IN
     /\ h \in dead => failed = "cpu" /\ e = "NoSuchProcess"
     /\ failed = "ok" => e = "NoSuchProcess"
     /\ cur' = ChildSample(cur, h, failed, cfg.include_io)
     /\ snaps' = Append(snaps, failed)
     /\ dead' = IF failed # "ok" /\ e = "NoSuchProcess"
                THEN dead \cup {h} ELSE dead
  /\ IF idx = Len(children)
     THEN /\ pc' = AfterChildren(cfg)
          /\ idx' = 0
          /\ probe' = [probe EXCEPT !.children = "none"]
     ELSE /\ pc' = "visit"
          /\ idx' = idx + 1
          /\ UNCHANGED probe
  /\ UNCHANGED <<cfg, children, f, file, out, log, now, exc, sprocess,
                 plotted, stop, nsamples>>

(* ------------------------- directory, sinks, pause --------------------- *)

\* the bytes under include_dir when the scan succeeds
DirBytes == 7 * MBytes

\* an except branch that leaves current_dir as the iteration before set it
DirSizeKept(ok) == IF ok THEN ToMB(DirBytes) ELSE cur["current_dir"]

\* lines 272-284: the directory's size in MB, 0.0 when the scan fails
DirSize(ok) == IF ok THEN ToMB(DirBytes) ELSE 0

DirProbe(ok) ==
  /\ pc = "dir"
  /\ cur' = [cur EXCEPT !["current_dir"] = DirSize(ok)]
  /\ probe' = [probe EXCEPT !.dir = Answer(ok)]
  /\ pc' = AfterDir(cfg)
  /\ UNCHANGED <<cfg, children, idx, f, file, out, log, now, dead, exc,
                 sprocess, plotted, stop, nsamples, snaps>>

\* a row and its newline left in the stream's buffer: no f.flush()
WriteLineBuffered(o, row) ==
  [o EXCEPT !.rows = Push(@, row),
            !.newlines = @ + 1]

\* lines 286-310: the row's fields, f.write("\n"), f.flush()
WriteLine(o, row) ==
  [o EXCEPT !.rows = Push(@, row),
            !.newlines = @ + 1,
            !.flushed = Len(o.header) + o.rows.n + 1]

WriteRow ==
  /\ pc = "write"
  /\ out' = WriteLine(out, Row(cfg, cur))
  /\ pc' = AfterWrite(cfg)
  /\ UNCHANGED <<cfg, children, idx, cur, f, file, log, now, dead, exc,
                 sprocess, plotted, stop, nsamples, snaps, probe>>

\* lines 312-313: time.sleep(interval)
Sleep ==
  /\ pc = "sleep"
  /\ now' = IF now + cfg.interval > MaxTime THEN MaxTime ELSE now + cfg.interval
  /\ pc' = AfterSleep(cfg)
  /\ UNCHANGED <<cfg, children, idx, cur, f, file, out, log, dead, exc,
                 sprocess, plotted, stop, nsamples, snaps, probe>>

\* lines 316-325
PlotAppend ==
  /\ pc = "append"
  /\ log' = AppendLog(cfg, log, cur)
  /\ pc' = "root"
  /\ UNCHANGED <<cfg, children, idx, cur, f, file, out, now, dead, exc,
                 sprocess, plotted, stop, nsamples, snaps, probe>>

\* KeyboardInterrupt inside the try block (lines 327-328), between two of
\* the loop's steps
Interrupt ==
  /\ InLoop
  /\ Break("Interrupted")
  /\ UNCHANGED <<cfg, children, idx, cur, f, file, out, log, now, dead, exc,
                 sprocess, plotted, nsamples, snaps, probe>>

(* ---------------------------- after the loop --------------------------- *)

\* lines 330-332: f.close() unless the stream is stdout
CloseStream(c, s) ==
  IF Logfile(c) # None /\ Logfile(c) # STDOUT THEN "closed" ELSE s

\* lines 334-359: plot the series and save the figure.  max() of an empty
\* list raises ValueError (lines 348, 353).
Finish ==
  /\ pc = "finish"
  /\ f' = CloseStream(cfg, f)
  /\ out' = IF f' = "closed"
            THEN [out EXCEPT !.flushed = Len(out.header) + out.rows.n]
            ELSE out
  /\ IF cfg.plot = None
     THEN pc' = "ret" /\ UNCHANGED <<exc, plotted>>
     ELSE IF log["cpu"].n = 0 \/ log["mem_real"].n = 0
     THEN Raise("ValueError") /\ UNCHANGED plotted
     ELSE pc' = "ret" /\ plotted' = Append(plotted, log) /\ UNCHANGED exc
  /\ UNCHANGED <<cfg, children, idx, cur, file, log, now, dead, sprocess,
                 stop, nsamples, snaps, probe>>

\* main() lines 129-130: reached when monitor() returned
Kill(p) == IF p # None THEN "killed" ELSE p

\* the end of main(): after monitor() returned, or with its exception
MainEnd ==
  /\ pc \in {"ret", "raised"}
  /\ sprocess' = IF pc = "ret" THEN Kill(sprocess) ELSE sprocess
  /\ pc' = "exit"
  /\ UNCHANGED <<cfg, children, idx, cur, f, file, out, log, now, dead, exc,
                 plotted, stop, nsamples, snaps, probe>>

(* ---------------------------- specification ---------------------------- *)

Points == {"ok", "cpu", "mem", "io"}

Next ==
  \/ \E found \in BOOLEAN : Call(cfg, found)
  \/ \E t \in now .. MaxTime,
        st \in {"running", "zombie", "dead"} \cup OSErrors,
        rd \in BOOLEAN, io \in {"ok"} \cup OSErrors : RootRead(t, st, rd, io)
  \/ \E ok \in BOOLEAN, found \in Enumerations : Enumerate(ok, found)
  \/ \E failed \in {p \in Points : p = "io" => cfg.include_io},
        e \in OSErrors : Visit(failed, e)
  \/ \E ok \in BOOLEAN : DirProbe(ok)
  \/ WriteRow
  \/ Sleep
  \/ PlotAppend
  \/ Interrupt
  \/ Finish
  \/ MainEnd

Spec == Init /\ [][Next]_vars

(* ------------------------------ properties ----------------------------- *)

\* monitor() has ended: it returned, or an exception left it
Ended == pc \in {"ret", "raised", "exit"}

\* the step is one pass of the loop over the descendants
VisitStep == pc = "visit" /\ Len(snaps') = Len(snaps) + 1

\* C1: a descendant whose snapshot fails (NoSuchProcess or AccessDenied), at
\* whichever read, leaves the sample's totals and process count as they were
\* before it was visited.
C1_GoneChangesNothing ==
  [][(VisitStep /\ snaps'[Len(snaps')] # "ok") => cur' = cur]_vars

\* C2: no NoSuchProcess or AccessDenied raised by a read of the root inside
\* the loop leaves monitor(): the loop stops cleanly and the terminal actions
\* run.
C2_RootErrorsAbsorbed ==
  (cur["elapsed_time"] # NoNumber /\ Ended) => exc \notin OSErrors

\* C3: with a log_format that is neither plain nor csv, whatever the sinks,
\* monitor() raises before the loop takes any sample: the loop is never
\* entered.
C3_UnknownFormatRejected ==
  (cfg.log_format \notin {"plain", "csv"} /\ pc # "idle")
    => pc \in {"raised", "exit"} /\ exc # None /\ stop = None /\ nsamples = 0

\* C4: when an unknown log_format is rejected and a log file path was given,
\* no log file has been created or opened.
C4_NoFileOnRejection ==
  (pc = "raised" /\ exc = "ValueError" /\ stop = None /\ cfg.logfile # None)
    => file = "absent" /\ f # "open"

\* C5: when a plot is configured and the loop stopped with an empty series,
\* the rendering step completes without raising.
C5_EmptySeriesRenders ==
  (Ended /\ cfg.plot # None /\ stop # None /\ log["times"].n = 0)
    => exc = None

\* C6: a subprocess spawned by main() has been killed when main() ends,
\* however the monitoring ended.
C6_SpawnedKilled ==
  (pc = "exit" /\ cfg.spawn) => sprocess = "killed"

\* C7: once the loop has stopped, for whatever reason, and the terminal
\* actions are over, the log file monitor() opened is closed, standard output
\* is not, and a configured plot has been rendered exactly once, from the
\* full series.
C7_TerminalActions ==
  (Ended /\ stop # None) =>
    /\ cfg.logfile # None => f = "closed"
    /\ (cfg.logfile = None /\ cfg.plot = None) => f = "stdout"
    /\ cfg.plot # None => plotted = <<log>>
    /\ cfg.plot = None => plotted = <<>>

\* a is an initial part of b
IsPrefix(a, b) ==
  /\ Len(a) <= Len(b)
  /\ \A i \in 1 .. Len(a) : b[i] = a[i]

\* the step is a call of monitor()
CallStep == pc \in {"idle", "exit"} /\ pc' \notin {"idle", "exit"}

\* C8: within a run the registry only grows at its end, so its size never
\* decreases and no handle is removed, also not an exited one; and every
\* call of monitor() starts with the registry empty.
C8_RegistryAppendOnly ==
  [][IF CallStep THEN children' = <<>> ELSE IsPrefix(children, children')]_vars

\* a run ended with both handles registered, the first of them exited, and
\* a next call of monitor() starts from here
C8_Witness ==
  /\ pc = "exit"
  /\ Len(children) = 2
  /\ children[1] \in dead

\* the locals that hold the sample, and the root's own reading of each
SampleVars ==
  {"current_cpu", "current_mem_real", "current_mem_virtual",
   "current_mem_swap", "read_count", "write_count", "read_bytes",
   "write_bytes", "n_proc"}

RootValue(k) ==
  CASE k = "current_cpu" -> Snapshot(Root).cpu
    [] k = "current_mem_real" -> ToMB(Snapshot(Root).rss)
    [] k = "current_mem_virtual" -> ToMB(Snapshot(Root).vms)
    [] k = "current_mem_swap" -> ToMB(Snapshot(Root).swap)
    [] k = "read_count" -> Snapshot(Root).read_count
    [] k = "write_count" -> Snapshot(Root).write_count
    [] k = "read_bytes" -> Snapshot(Root).read_bytes
    [] k = "write_bytes" -> Snapshot(Root).write_bytes
    [] k = "n_proc" -> 1

\* C9: with include_children false the registry stays empty, and every
\* sample, in the locals, in the row written and in the plot series, has
\* process count 1 and the root's own cpu, memory and I/O readings.
C9_RootOnly ==
  ~cfg.include_children =>
    /\ children = <<>>
    /\ \A k \in SampleVars :
         cur[k] # NoNumber => cur[k] = RootValue(k)
    /\ \A i \in 1 .. Len(out.rows.last) :
         out.rows.last[i].var \in SampleVars
           => out.rows.last[i].val = RootValue(out.rows.last[i].var)
    /\ \A k \in DOMAIN log :
         (log[k].n > 0 /\ LogVar(k) \in SampleVars)
           => log[k].last = RootValue(LogVar(k))

\* a run over the root alone has written two csv rows with I/O counters and
\* appended both samples to the plot series
C9_Witness ==
  /\ ~cfg.include_children
  /\ cfg.include_io
  /\ cfg.log_format = "csv"
  /\ out.rows.n = 2
  /\ log["write_bytes"].n = 2
  /\ cur["n_proc"] = 1

\* the local a header column announces
ColumnVar(col) ==
  CASE col \in {"Elapsed time", "elapsed_time"} -> "elapsed_time"
    [] col = "nproc" -> "n_proc"
    [] col \in {"CPU (%)", "cpu"} -> "current_cpu"
    [] col \in {"Real (MB)", "mem_real"} -> "current_mem_real"
    [] col \in {"Virtual (MB)", "mem_virtual"} -> "current_mem_virtual"
    [] col \in {"Swap (MB)", "mem_swap"} -> "current_mem_swap"
    [] col \in {"Read count", "read_count"} -> "read_count"
    [] col \in {"Write count", "write_count"} -> "write_count"
    [] col \in {"Read bytes", "read_bytes"} -> "read_bytes"
    [] col \in {"Write bytes", "write_bytes"} -> "write_bytes"
    [] col \in {"Dir size (MB)", "dir_size_mb"} -> "current_dir"

\* the number of columns the options ask for
Columns(c) ==
  (IF c.log_format = "plain" THEN 5 ELSE 6)
  + (IF c.include_io THEN 4 ELSE 0)
  + (IF c.include_dir # None THEN 1 ELSE 0)

\* C10: the header is written once, before any row, and every row has as
\* many fields as the header has columns, in the header's order: 5 (plain)
\* or 6 (csv), plus 4 with include_io, plus 1 with include_dir.
C10_RowsMatchHeader ==
  /\ Len(out.header) <= 1
  /\ out.rows.n > 0 =>
       /\ Len(out.header) = 1
       /\ Len(out.header[1]) = Columns(cfg)
       /\ Len(out.rows.last) = Columns(cfg)
       /\ \A i \in 1 .. Len(out.rows.last) :
            out.rows.last[i].var = ColumnVar(out.header[1][i])

\* two csv rows of eleven fields each were written under their header
C10_Witness ==
  /\ cfg.log_format = "csv"
  /\ cfg.include_io
  /\ cfg.include_dir # None
  /\ out.rows.n = 2
  /\ Len(out.rows.last) = 11

\* the elapsed_time field of the last row written
LastRowTime == out.rows.last[1].val

\* the step is the read of the clock and the root that opens an iteration
RootStep == pc = "root" /\ pc' # "root" /\ stop' # "Interrupted"

\* C11 as stated: once the elapsed time read at the top of an iteration
\* exceeds the duration and no exception left monitor(), the loop has
\* stopped with DurationExceeded.
C11_StopsWithDurationExceeded ==
  (cfg.duration # NoNumber /\ cur["elapsed_time"] > cfg.duration /\ exc = None)
    => stop = "DurationExceeded"

\* C11: with a duration configured, the first iteration whose elapsed time
\* exceeds the duration ends the loop without taking a sample: with
\* DurationExceeded, or with ProcessExited when the status read, which comes
\* first, shows the root exited, or with the AccessDenied of that read
\* leaving monitor().  DurationExceeded is never the reason at an elapsed
\* time within the duration, and no sample whose elapsed_time exceeds the
\* duration is written to the log or appended to the plot series.
C11_DurationBoundsSamples ==
  [][cfg.duration # NoNumber =>
       /\ (RootStep /\ now' > cfg.duration) =>
            /\ \/ pc' = "finish" /\ stop' \in {"DurationExceeded", "ProcessExited"}
               \/ pc' = "raised" /\ exc' = "AccessDenied"
            /\ nsamples' = nsamples
            /\ out' = out
            /\ log' = log
       /\ stop' = "DurationExceeded" => cur'["elapsed_time"] > cfg.duration
       /\ cur'["elapsed_time"] > cfg.duration => ~InLoop'
       /\ out'.rows.n > 0 => out'.rows.last[1].val <= cfg.duration
       /\ log'["times"].n > 0 => log'["times"].last <= cfg.duration]_vars

\* a run with a duration wrote and appended one sample within the duration,
\* then stopped with DurationExceeded at a later elapsed time
C11_Witness ==
  /\ cfg.duration # NoNumber
  /\ stop = "DurationExceeded"
  /\ pc = "ret"
  /\ out.rows.n = 1
  /\ LastRowTime <= cfg.duration
  /\ log["times"].n = 1
  /\ cur["elapsed_time"] > cfg.duration

\* how many samples a sink holds: every sample taken, less the one under way
\* while the loop is at one of the positions `before` that sink's statement,
\* or was interrupted there
Routed(before) ==
  IF pc \in before \/ (pc = "finish" /\ stop = "Interrupted")
  THEN {nsamples - 1, nsamples}
  ELSE {nsamples}

\* C12: samples are routed by the configuration only.  With a log file, or
\* with neither log file nor plot (then standard output), every sample is
\* written as a row; with a plot alone no stream is opened, no file created
\* and nothing written; the plot series grows by every sample when a plot
\* is given and stays empty when none is.
C12_RoutedByConfiguration ==
  /\ Logfile(cfg) = None =>
       f = None /\ file = "absent" /\ out = NoOutput
  /\ (Logfile(cfg) = STDOUT /\ pc \notin {"idle"} /\ exc # "NoSuchProcess") =>
       f = "stdout" /\ file = "absent"
  /\ (Logfile(cfg) # None /\ (InLoop \/ pc = "finish")) =>
       out.rows.n \in Routed({"enum", "visit", "dir", "write"})
  /\ (Logfile(cfg) # None /\ pc \in {"sleep", "append", "root"}) =>
       out.rows.n = nsamples
  /\ cfg.plot = None =>
       plotted = <<>> /\ \A k \in DOMAIN log : log[k].n = 0
  /\ (cfg.plot # None /\ (InLoop \/ pc = "finish")) =>
       \A k \in DOMAIN log :
         log[k].n \in Routed({"enum", "visit", "dir", "write", "sleep", "append"})
  /\ (cfg.plot # None /\ pc = "root") =>
       \A k \in DOMAIN log : log[k].n = nsamples

\* a plot-only run took two samples: both are in the series, and there is no
\* log stream, no log file and no output
C12_Witness ==
  /\ cfg.logfile = None
  /\ cfg.plot # None
  /\ nsamples = 2
  /\ log["times"].n = 2
  /\ f = None
  /\ file = "absent"
  /\ out = NoOutput
  /\ plotted # <<>>

\* C13: once the root was found exited, or the duration was found exceeded,
\* the loop is in STOPPED and monitor() returns: past its terminal actions
\* it has returned to main(), and no exception left it.
C13_StoppedThenReturns ==
  (stop \in {"ProcessExited", "DurationExceeded"} /\ pc # "finish")
    => pc \in {"ret", "exit"} /\ exc = None

\* C14: with both a log and a plot, the series of a rendered plot holds one
\* entry per log row, the last entry being the last row's sample, and its
\* lists all have the same length, whatever stopped the loop.
C14_PlotHoldsEveryRow ==
  (Logfile(cfg) # None /\ cfg.plot # None /\ plotted # <<>>) =>
    LET series == plotted[Len(plotted)] IN
    /\ \A k \in DOMAIN series : series[k].n = out.rows.n
    /\ series["times"].last = LastRowTime

\* the descendants of this iteration whose snapshot fully succeeded, as
\* positions in the registry
Succeeded == {i \in 1 .. Len(snaps) : snaps[i] = "ok"}

\* whether total k of the locals holds the reading of process h: the total
\* is the root's reading times a sum of weights, each a power of two
Holds(k, h) == ((cur[k] \div RootValue(k)) \div Weight(h)) % 2 = 1

\* the totals the loop over the descendants adds to
Totals(c) ==
  {"current_cpu", "current_mem_real", "current_mem_virtual", "current_mem_swap"}
  \cup (IF c.include_io
        THEN {"read_count", "write_count", "read_bytes", "write_bytes"}
        ELSE {})

\* C15: with include_children, while the descendants are visited and until
\* the sample is routed, the process count is 1 plus the number of
\* descendants visited whose snapshot fully succeeded, and every total
\* holds the readings of each of them, whatever failed before it; every
\* registered descendant is visited; a descendant that has exited stays in
\* the registry and is not counted; the row written carries that count.
C15_CountsSucceeded ==
  (cfg.include_children /\ pc \in {"visit", "dir", "write", "sleep", "append"}) =>
    /\ cur["n_proc"] = 1 + Cardinality(Succeeded)
    /\ \A i \in Succeeded : \A k \in Totals(cfg) : Holds(k, children[i])
    /\ \A i \in 1 .. Len(snaps) : children[i] \in dead => i \notin Succeeded
    /\ dead \subseteq {children[i] : i \in 1 .. Len(children)}
    /\ pc # "visit" => Len(snaps) = Len(children)
    /\ pc \in {"sleep", "append"} =>
         out.rows.last[2] = [var |-> "n_proc", val |-> 1 + Cardinality(Succeeded)]

\* the second iteration over two descendants: the first has exited and
\* fails its first read, the second is sampled, the count is 2
C15_Witness ==
  /\ cfg.include_children
  /\ pc = "append"
  /\ nsamples = 2
  /\ Len(children) = 2
  /\ children[1] \in dead
  /\ snaps = <<"cpu", "ok">>
  /\ cur["n_proc"] = 2

\* the step is a root read that finds the root exited
ExitFound == RootStep /\ stop' = "ProcessExited"

\* C16: the iteration whose root read finds the root exited ends the loop
\* there: the step leaves the log output, the plot series, the registry,
\* the descendants' snapshots and the sample count as they were, samples no
\* descendant and no directory, and goes to the terminal actions; from then
\* on, until monitor() is called again, no row is written, nothing is
\* appended and no sample is taken.
C16_ExitStopsAtOnce ==
  [][/\ ExitFound =>
          /\ pc' = "finish"
          /\ out' = out
          /\ log' = log
          /\ children' = children
          /\ snaps' = snaps
          /\ probe' = NoProbe
          /\ nsamples' = nsamples
          /\ \A k \in Locals \ {"elapsed_time"} : cur'[k] = cur[k]
     /\ (stop = "ProcessExited" /\ ~CallStep) =>
          /\ ~InLoop'
          /\ out'.rows = out.rows
          /\ log' = log
          /\ cur' = cur
          /\ nsamples' = nsamples]_vars

\* the root was found exited in the third iteration of a run with a
\* directory scan: monitor() returned with the two rows of the two samples
C16_Witness ==
  /\ stop = "ProcessExited"
  /\ pc = "ret"
  /\ cfg.include_dir # None
  /\ nsamples = 2
  /\ out.rows.n = 2

\* the rows that have left the stream's buffer; the header line is flushed
\* with the first row
FlushedRows == IF out.flushed = 0 THEN 0 ELSE out.flushed - Len(out.header)

\* C17: every line written ends with its newline, and a row is flushed with
\* it: whenever a row has been written nothing is left unflushed.  Between
\* the write of an iteration and the root read of the next (before the
\* pause, during it, before the plot append), and after a stop at a root
\* read, the log holds one flushed row per sample taken.
C17_RowsFlushedAtOnce ==
  Logfile(cfg) # None =>
    /\ out.newlines = Len(out.header) + out.rows.n
    /\ out.rows.n > 0 => out.flushed = out.newlines
    /\ FlushedRows = out.rows.n
    /\ pc \in {"sleep", "append", "root"} => FlushedRows = nsamples
    /\ (stop \notin {None, "Interrupted"} /\ exc = None) => FlushedRows = nsamples

\* the second row was written to the log file and the pause is about to
\* start: both rows, and the header, are flushed
C17_Witness ==
  /\ cfg.logfile # None
  /\ pc = "sleep"
  /\ f = "open"
  /\ nsamples = 2
  /\ out.rows.n = 2
  /\ out.flushed = 3

\* the step is a call of all_children() whose query failed
QueryFailed == pc = "enum" /\ probe'.children = "failed"

\* C18: a call of all_children() whose query fails raises nothing and leaves
\* the registry as it was, same handles in the same order; the loop over
\* the descendants then starts at the first of them, and the iteration
\* visits every one of them before its sample is routed.
C18_FailedQueryKeepsRegistry ==
  [][/\ QueryFailed =>
          /\ children' = children
          /\ exc' = exc
          /\ stop' = stop
          /\ IF children = <<>>
             THEN pc' = AfterChildren(cfg)
             ELSE pc' = "visit" /\ idx' = 1 /\ snaps' = <<>>
     /\ (probe.children = "failed" /\ InLoop /\ pc # "root") =>
          /\ children' = children
          /\ (pc = "visit" /\ InLoop') => Len(snaps') = idx
          /\ (pc = "visit" /\ pc' \notin {"visit", "finish"}) =>
               Len(snaps') = Len(children)]_vars

\* the query failed in the second iteration: the loop walks the two
\* descendants found in the first, and has sampled and counted the first
C18_Witness ==
  /\ probe.children = "failed"
  /\ pc = "visit"
  /\ nsamples = 2
  /\ Len(children) = 2
  /\ idx = 2
  /\ snaps = <<"ok">>
  /\ cur["n_proc"] = 2

\* the handles in the registry
Registered == {children[i] : i \in 1 .. Len(children)}

RECURSIVE SumWeights(_)
SumWeights(S) ==
  IF S = {} THEN 0
  ELSE LET h == CHOOSE x \in S : TRUE IN Weight(h) + SumWeights(S \ {h})

\* C19: the registry holds no handle twice, and no sample counts or sums a
\* descendant more than once: the process count is at most 1 plus the
\* number of distinct handles, and every total at most the root's reading
\* plus one reading of each.
C19_RegistryDeduplicated ==
  /\ \A i, j \in 1 .. Len(children) : i # j => children[i] # children[j]
  /\ Len(snaps) <= Cardinality(Registered)
  /\ (cfg.include_children /\ cur["n_proc"] # NoNumber) =>
       /\ cur["n_proc"] <= 1 + Cardinality(Registered)
       /\ \A k \in Totals(cfg) :
            cur[k] <= RootValue(k) * (Weight(Root) + SumWeights(Registered))

\* the second iteration of a run, after its query: the registry holds the
\* two descendants once each, and the sample counts each once
C19_Witness ==
  /\ nsamples = 2
  /\ pc = "append"
  /\ Cardinality(Registered) = 2
  /\ Len(children) = 2
  /\ dead = {}
  /\ snaps = <<"ok", "ok">>
  /\ cur["n_proc"] = 3
  /\ cur["current_cpu"] = Weight(Root) + SumWeights(Handles)

\* the step is the directory scan of an iteration
ScanStep == pc = "dir" /\ probe'.dir # "none"

\* the last field of the last row written: the directory size
LastRowDir == out.rows.last[Len(out.rows.last)]

\* C20: with include_dir, every iteration scans the directory anew: the
\* size it gives the sample is the directory's when the scan succeeds and 0
\* when it fails, whatever the iteration before had; a failed scan raises
\* nothing and stops nothing, and its sample is written to the log with
\* size 0 and appended to the plot series like any other.
C20_FailedScanGivesZero ==
  [][cfg.include_dir # None =>
       /\ ScanStep =>
            /\ cur'["current_dir"] =
                 (IF probe'.dir = "ok" THEN ToMB(DirBytes) ELSE 0)
            /\ pc' = AfterDir(cfg)
            /\ exc' = exc
            /\ stop' = stop
       /\ (RootStep /\ InLoop') => probe'.dir = "none"
       /\ pc' \in {"write", "sleep", "append"} => probe'.dir # "none"
       /\ (probe'.dir = "failed" /\ pc' \in {"write", "sleep", "append", "root"}) =>
            /\ cur'["current_dir"] = 0
            /\ exc' = None
       /\ (probe'.dir = "failed" /\ pc' \in {"sleep", "append", "root"}
             /\ Logfile(cfg) # None) =>
            /\ out'.rows.n = nsamples'
            /\ LastRowDir' = [var |-> "current_dir", val |-> 0]
       /\ (probe'.dir = "failed" /\ pc' = "root" /\ cfg.plot # None) =>
            log'["times"].n = nsamples']_vars

\* the scan of the first iteration failed and its row was written with size
\* 0; the scan of the second iteration succeeded
C20_Witness ==
  /\ cfg.include_dir # None
  /\ pc = "write"
  /\ nsamples = 2
  /\ out.rows.n = 1
  /\ LastRowDir = [var |-> "current_dir", val |-> 0]
  /\ probe.dir = "ok"
  /\ cur["current_dir"] = ToMB(DirBytes)

====
